---- MODULE Spec2Model ----
(***************************************************************************)
(* One invocation of KubernetesAnsibleScaleModule.execute_module           *)
(* (plugins/module_utils/scale.py) against a cluster object that an        *)
(* external writer may modify between the invocation's API calls.          *)
(* Every action is the code that runs up to and including one API call,    *)
(* together with everything that follows it until the next API call.       *)
(***************************************************************************)
EXTENDS Integers, Sequences, FiniteSets, TLC

(* ------------------------------ bounds --------------------------------- *)

\* replica / parallelism counts range over 0..MaxReplicas
MaxReplicas == 2

\* number of modifications the external writer may make during one invocation
MaxWrites == 1

\* the largest wait_timeout tried lets the wait loop poll MaxPolls times
MaxPolls == 2

(* --------------------------- program values ---------------------------- *)

\* Python None (an unset parameter, a missing field)
None == -1

\* the empty string given as resource_version (falsy in Python)
EmptyStr == 0

\* the interval given in a coarser unit and truncated
PollIntervalTruncated == 5 \div 60

\* the poll interval scale() passes to wait()
PollInterval == 5

\* default of the wait_timeout parameter
WaitTimeoutDefault == 20

\* resourceVersion tokens: the object starts the invocation at the first
\* one, every modification moves it to the next
ResourceVersions == {1, 2}

FirstResourceVersion == CHOOSE v \in ResourceVersions : \A w \in ResourceVersions : v <= w

\* errors an API call may raise
Errors == {"E1", "E2"}

Counts == 0..MaxReplicas

\* a document of the cluster object (existing.to_dict()): the fields the code reads
Doc(k, n, ns, p, r, rv) ==
    [kind |-> k, name |-> n, namespace |-> ns,
     parallelism |-> p, replicas |-> r, resourceVersion |-> rv]

\* dict(): the empty document
EmptyDict == Doc("{}", "", "", None, None, None)

\* None in place of a document
NoneDoc == Doc("None", "", "", None, None, None)

\* the cluster holds no such object
Absent == Doc("absent", "", "", None, None, None)

\* find_resource finds no resource for the kind
NoResource == ""

\* self.kind together with the resource find_resource resolves:
\* kind is self.kind (the kind parameter as the caller wrote it), resource
\* is the resolved API resource, hasScale whether it has a scale subresource
Targets ==
    { [kind |-> "job",        resource |-> "Job",        hasScale |-> FALSE],
      [kind |-> "Job",        resource |-> "Job",        hasScale |-> FALSE],
      [kind |-> "job",        resource |-> "Deployment", hasScale |-> TRUE],
      [kind |-> "Deployment", resource |-> "Deployment", hasScale |-> TRUE],
      [kind |-> "Custom",     resource |-> "Custom",     hasScale |-> FALSE],
      [kind |-> "Widget",     resource |-> NoResource,   hasScale |-> FALSE] }

\* what __init__ leaves in self.resource_definitions: a list of mappings
\* (resource_definition given as a dict or a list, or the implicit
\* definition), the generator of yaml.safe_load_all (resource_definition
\* given as a string), or a list whose first mapping lacks a key
ResourceDefinitions == {"list", "generator", "no metadata", "no apiVersion"}

\* the wait_timeout values tried when wait is requested
WaitTimeouts ==
    {0, 4 * MaxPolls - 1, 5 * MaxPolls}

\* (wait, wait_timeout) pairs
WaitParams ==
    {<<FALSE, WaitTimeoutDefault>>} \cup {<<TRUE, t>> : t \in WaitTimeouts}

\* the objects the cluster may hold for a resource kind: a Job carries
\* spec.parallelism, every other kind spec.replicas; either may be missing
ObjectsOf(res) ==
    IF res = NoResource
    THEN {}
    ELSE IF res = "Job"
    THEN { Doc(res, "web", "default", c, None, FirstResourceVersion) :
             c \in Counts \cup {None} }
    ELSE { Doc(res, "web", "default", None, c, FirstResourceVersion) :
             c \in Counts \cup {None} }

VARIABLES
    target,            \* self.kind, the resolved resource
    params,            \* self.params: replicas, current_replicas, resource_version, wait,
                       \* wait_timeout; resource_definition as __init__ loaded it
    check_mode,        \* self.check_mode
    cluster,           \* the live object (or Absent)
    writes,            \* modifications made by the external writer so far
    pc,                \* position of the invocation
    existing,          \* execute_module: existing
    existing_count,    \* execute_module: existing_count
    return_attributes, \* execute_module: return_attributes
    scale_obj,         \* scale: scale_obj (replicas = None before it is built)
    scale_existing,    \* scale: existing (the 'before' document)
    k8s_obj,           \* scale: k8s_obj (the 'after' document)
    result,            \* scale: result
    elapsed,           \* wait: accumulated elapsed seconds
    response,          \* wait: last object fetched
    calls,             \* the API calls issued, in order (a run of polls is logged once)
    raised,            \* the error an API call raised, and the call that raised it
    report             \* what exit_json / fail_json / an uncaught exception reported

vars == <<target, params, check_mode, cluster, writes, pc, existing,
          existing_count, return_attributes, scale_obj, scale_existing,
          k8s_obj, result, elapsed, response, calls, raised, report>>

(* ------------------------- pure parts of the code ---------------------- *)

\* return_attributes without the duration that wait = true adds
InitialReturnAttributesNoDuration(wait) ==
    [changed |-> FALSE, result |-> EmptyDict,
     diff |-> [before |-> {}, after |-> {}]]

\* return_attributes as execute_module first builds it
InitialReturnAttributes(wait) ==
    IF wait
    THEN [changed |-> FALSE, result |-> EmptyDict,
          diff |-> [before |-> {}, after |-> {}], duration |-> 0]
    ELSE [changed |-> FALSE, result |-> EmptyDict,
          diff |-> [before |-> {}, after |-> {}]]

\* the kind test that selects the Job path
IsJob(kind) == kind = "job"

\* existing_count: spec.parallelism for a job, else spec.replicas
ExistingCount(kind, obj) ==
    IF IsJob(kind) THEN obj.parallelism ELSE obj.replicas

\* the test on the truth value of the count: 0 taken for missing
CountMissingFalsy(count) == count = None \/ count = 0

\* existing_count is None: the object yields no count
CountMissing(count) == count = None

\* Python truth value of the resource_version parameter
Truthy(s) == s # None /\ s # EmptyStr

\* the guard with the comparison left out of the skip condition
ResourceVersionSkipsOnMatch(resource_version, obj) ==
    Truthy(resource_version) /\ resource_version = obj.resourceVersion

\* the resource_version guard: TRUE when the invocation must skip
ResourceVersionSkips(resource_version, obj) ==
    Truthy(resource_version) /\ resource_version # obj.resourceVersion

\* the guard testing the truth value of current_replicas: 0 counts as unset
CurrentReplicasSkipsTruthy(current_replicas, count) ==
    current_replicas # None /\ current_replicas # 0 /\ count # current_replicas

\* the current_replicas guard: TRUE when the invocation must skip
CurrentReplicasSkips(current_replicas, count) ==
    current_replicas # None /\ count # current_replicas

\* the test with an ordering in place of the inequality
NeedsChangeNotAbove(count, replicas) == count <= replicas

\* the test that decides whether a change is needed
NeedsChange(count, replicas) == count # replicas

\* scale_obj built with the count the object already has
ScaleObjKeepsCount(obj, replicas) ==
    [kind |-> obj.kind, name |-> obj.name, namespace |-> obj.namespace,
     replicas |-> obj.replicas]

\* scale_obj as scale() builds it from the fetched object
ScaleObj(obj, replicas) ==
    [kind |-> obj.kind, name |-> obj.name, namespace |-> obj.namespace,
     replicas |-> replicas]

\* the fields two documents differ in
DiffFields(before, after) ==
    { f \in DOMAIN before : before[f] # after[f] }

\* diff_objects: (match, diffs), diffs holding the differing parts of each side
DiffObjects(before, after) ==
    [match |-> DiffFields(before, after) = {},
     diffs |-> [before |-> { <<f, before[f]>> : f \in DiffFields(before, after) },
                after  |-> { <<f, after[f]>> : f \in DiffFields(before, after) }]]

\* result with changed = match (the negation dropped)
ScaleResultChangedIsMatch(before, after) ==
    [result |-> after,
     changed |-> DiffObjects(before, after).match,
     diff |-> DiffObjects(before, after).diffs]

\* result with changed set unconditionally, as on the Job path
ScaleResultAlwaysChanged(before, after) ==
    [result |-> after,
     changed |-> TRUE,
     diff |-> DiffObjects(before, after).diffs]

\* result as scale() builds it after the patch and the re-fetch
ScaleResult(before, after) ==
    [result |-> after,
     changed |-> ~DiffObjects(before, after).match,
     diff |-> DiffObjects(before, after).diffs]

\* result['result'] left as the document fetched right after the patch
ScaleWaitResultKeepsRefetched(res, obj, duration) ==
    [result |-> res.result, changed |-> res.changed, diff |-> res.diff,
     duration |-> duration]

\* result after  success, result['result'], result['duration'] = self.wait(...)
ScaleWaitResult(res, obj, duration) ==
    [result |-> obj, changed |-> res.changed, diff |-> res.diff,
     duration |-> duration]

(* ------------------------------ reports -------------------------------- *)

\* no API call has raised
NoError == [call |-> "", err |-> ""]

NoReport == [rc |-> "none", msg |-> <<>>, kw |-> <<>>]

\* exit_json(**kw)
ExitJson(kw) == [rc |-> "exit", msg |-> <<>>, kw |-> kw]

\* fail_json(msg=..., **kw)
FailJson(msg, kw) == [rc |-> "fail", msg |-> msg, kw |-> kw]

\* an exception no handler catches ends the module with the exception's text
Uncaught(err) == [rc |-> "crash", msg |-> <<err>>, kw |-> <<>>]

\* what scale() does with the outcome of wait()
ScaleAfterWait(success, res) ==
    IF ~success
    THEN FailJson(<<"Resource scaling timed out">>, res)
    ELSE ExitJson(res)

(* ------------------------------ the API -------------------------------- *)

\* the object after a write that sets its count field to c: an effective
\* write moves the resourceVersion, a write that changes nothing does not
Written(obj, field, c) ==
    IF obj[field] = c
    THEN obj
    ELSE [obj EXCEPT ![field] = c, !.resourceVersion = @ + 1]

\* the count field of an object of the given kind
CountField(kind) == IF kind = "Job" THEN "parallelism" ELSE "replicas"

\* the responses the API may give to a patch of the count field: the patch
\* takes effect, or it is accepted and silently changes nothing. A body
\* that carries a resourceVersion is applied only to that version.
PatchOutcomes(obj, field, c, bodyVersion) ==
    {obj} \cup
    (IF bodyVersion = None \/ bodyVersion = obj.resourceVersion
     THEN {Written(obj, field, c)} ELSE {})

(* -------------------------------- Init --------------------------------- *)

\* the state when execute_module reaches its first API call
Init ==
    /\ target \in Targets
    /\ \E w \in WaitParams :
         /\ params \in [replicas : Counts,
                        current_replicas : Counts \cup {None},
                        resource_version : ResourceVersions \cup {None, EmptyStr},
                        wait : {w[1]}, wait_timeout : {w[2]},
                        resource_definition : ResourceDefinitions]
         /\ return_attributes = InitialReturnAttributes(w[1])
    /\ check_mode \in BOOLEAN
    /\ cluster \in ObjectsOf(target.resource) \cup {Absent}
    /\ writes = 0
    /\ pc = "start"
    /\ existing = NoneDoc
    /\ existing_count = None
    /\ scale_obj = ScaleObj(NoneDoc, None)
    /\ scale_existing = NoneDoc
    /\ k8s_obj = NoneDoc
    /\ result = [result |-> EmptyDict, changed |-> FALSE,
                 diff |-> [before |-> {}, after |-> {}]]
    /\ elapsed = 0
    /\ response = NoneDoc
    /\ calls = <<>>
    /\ raised = NoError
    /\ report = NoReport

(* ------------------------------ actions -------------------------------- *)

\* the call log with one more poll: consecutive polls are logged once
Logged(log, call) ==
    IF log # <<>> /\ log[Len(log)] = call THEN log ELSE Append(log, call)

\* ends the invocation with the given report
Finish(rep) ==
    /\ pc' = "done"
    /\ report' = rep

\* the check_mode test left out: a needed change is always applied
ApplyIgnoresCheckMode(ra) ==
    IF IsJob(target.kind)
    THEN /\ pc' = "job_patch"
         /\ return_attributes' = ra
         /\ UNCHANGED <<report, scale_obj>>
    ELSE IF ~target.hasScale
    THEN /\ Finish(FailJson(<<"Cannot perform scale on resource of kind ",
                              target.resource>>, <<>>))
         /\ return_attributes' = ra
         /\ UNCHANGED scale_obj
    ELSE /\ pc' = "scale_get"
         /\ scale_obj' = ScaleObj(cluster, params.replicas)
         /\ return_attributes' = ra
         /\ UNCHANGED report

\* the Job branch left out: every kind goes through scale()
ApplyWithoutJobBranch(ra) ==
    IF check_mode
    THEN /\ Finish(ExitJson(ra))
         /\ return_attributes' = ra
         /\ UNCHANGED scale_obj
    ELSE IF ~target.hasScale
    THEN /\ Finish(FailJson(<<"Cannot perform scale on resource of kind ",
                              target.resource>>, <<>>))
         /\ return_attributes' = ra
         /\ UNCHANGED scale_obj
    ELSE /\ pc' = "scale_get"
         /\ scale_obj' = ScaleObj(cluster, params.replicas)
         /\ return_attributes' = ra
         /\ UNCHANGED report

\* the hasattr(resource, 'scale') test left out: scale() goes on to its calls
ApplyWithoutSubresourceCheck(ra) ==
    IF check_mode
    THEN /\ Finish(ExitJson(ra))
         /\ return_attributes' = ra
         /\ UNCHANGED scale_obj
    ELSE IF IsJob(target.kind)
    THEN /\ pc' = "job_patch"
         /\ return_attributes' = ra
         /\ UNCHANGED <<report, scale_obj>>
    ELSE /\ pc' = "scale_get"
         /\ scale_obj' = ScaleObj(cluster, params.replicas)
         /\ return_attributes' = ra
         /\ UNCHANGED report

\* execute_module from the decision that a change is needed: check mode,
\* the Job path up to its patch call, scale() up to its first get
Apply(ra) ==
    IF check_mode
    THEN /\ Finish(ExitJson(ra))
         /\ return_attributes' = ra
         /\ UNCHANGED scale_obj
    ELSE IF IsJob(target.kind)
    THEN /\ pc' = "job_patch"
         /\ return_attributes' = ra
         /\ UNCHANGED <<report, scale_obj>>
    ELSE IF ~target.hasScale
    THEN /\ Finish(FailJson(<<"Cannot perform scale on resource of kind ",
                              target.resource>>, <<>>))
         /\ return_attributes' = ra
         /\ UNCHANGED scale_obj
    ELSE /\ pc' = "scale_get"
         /\ scale_obj' = ScaleObj(cluster, params.replicas)
         /\ return_attributes' = ra
         /\ UNCHANGED report

\* execute_module before the client is built: indexing the definitions
DefinitionIndexError(definitions) ==
    IF definitions = "generator"
    THEN {"TypeError: 'generator' object is not subscriptable"}
    ELSE {}

\* execute_module: reading name, namespace, apiVersion and kind off the definition
DefinitionKeyError(definitions) ==
    IF definitions = "no metadata" THEN {"KeyError: 'metadata'"}
    ELSE IF definitions = "no apiVersion" THEN {"KeyError: 'apiVersion'"}
    ELSE {}

\* get_api_client: the client may fail to be built, reported or raised
GetApiClientOutcomes ==
    {FailJson(<<"client">>, <<>>), Uncaught("client")}

\* find_resource(kind, api_version, fail=True): an unknown kind is reported
FindResourceOutcomes(tgt) ==
    IF tgt.resource = NoResource
    THEN {FailJson(<<"Failed to find exact match for ", tgt.kind>>, <<>>)}
    ELSE {}

\* the ways execute_module ends before its first API call, in code order:
\* the index error, then a client failure, then a key error, then the lookup
SetupOutcomes(definitions, tgt) ==
    IF DefinitionIndexError(definitions) # {}
    THEN {Uncaught(e) : e \in DefinitionIndexError(definitions)}
    ELSE GetApiClientOutcomes \cup
         (IF DefinitionKeyError(definitions) # {}
          THEN {Uncaught(e) : e \in DefinitionKeyError(definitions)}
          ELSE FindResourceOutcomes(tgt))

\* execute_module can reach resource.get: the definition has its keys and
\* the resource is found
SetupPasses(definitions, tgt) ==
    /\ DefinitionIndexError(definitions) = {}
    /\ DefinitionKeyError(definitions) = {}
    /\ FindResourceOutcomes(tgt) = {}

\* execute_module ends before the initial get
ExecuteModuleSetupEnds ==
    /\ pc = "start"
    /\ \E rep \in SetupOutcomes(params.resource_definition, target) : Finish(rep)
    /\ UNCHANGED <<k8s_obj, raised, target, params, check_mode, cluster, writes,
                   existing, existing_count, return_attributes, scale_obj,
                   scale_existing, result, elapsed, response, calls>>

\* the fetched object not stored: result stays the empty dict
WithResultLeftEmpty(ra, obj) == ra

\* execute_module: return_attributes['result'] = existing.to_dict()
WithResult(ra, obj) == [ra EXCEPT !.result = obj]

\* execute_module: the initial get finds the object; count, guards, decision
ExecuteModuleGet ==
    /\ pc = "start"
    /\ SetupPasses(params.resource_definition, target)
    /\ cluster # Absent
    /\ calls' = Append(calls, "get")
    /\ existing' = cluster
    /\ existing_count' = ExistingCount(target.kind, cluster)
    /\ LET ra == WithResult(return_attributes, cluster)
           count == ExistingCount(target.kind, cluster)
       IN IF CountMissing(count)
          THEN /\ Finish(FailJson(<<"Failed to retrieve the available count for the requested object.">>, <<>>))
               /\ return_attributes' = ra
               /\ UNCHANGED scale_obj
          ELSE IF \/ ResourceVersionSkips(params.resource_version, cluster)
                  \/ CurrentReplicasSkips(params.current_replicas, count)
                  \/ ~NeedsChange(count, params.replicas)
          THEN /\ Finish(ExitJson(ra))
               /\ return_attributes' = ra
               /\ UNCHANGED scale_obj
          ELSE Apply([ra EXCEPT !.changed = TRUE])
    /\ UNCHANGED <<k8s_obj, raised, target, params, check_mode, cluster, writes,
                   scale_existing, result, elapsed, response>>

\* the except clause of the initial get: fail_json with exc.value.get('status');
\* an exception object without a value attribute makes the clause itself raise
NotFoundReport(hasValue) ==
    IF hasValue
    THEN FailJson(<<"Failed to retrieve requested object: ", "NotFound">>,
                  [error |-> 404])
    ELSE Uncaught("AttributeError: 'NotFoundError' object has no attribute 'value'")

\* NotFoundError answered by a second get before giving up
ExecuteModuleNotFoundRetriesOnce ==
    /\ pc = "start"
    /\ SetupPasses(params.resource_definition, target)
    /\ cluster = Absent
    /\ calls' = calls \o <<"get", "get">>
    /\ raised' = [call |-> "get", err |-> "NotFound"]
    /\ Finish(FailJson(<<"Failed to retrieve requested object: ", "NotFound">>,
                       [error |-> 404]))
    /\ UNCHANGED <<k8s_obj, target, params, check_mode, cluster, writes, existing,
                   existing_count, return_attributes, scale_obj,
                   scale_existing, result, elapsed, response>>

\* execute_module: the initial get raises NotFoundError
ExecuteModuleNotFound ==
    /\ pc = "start"
    /\ SetupPasses(params.resource_definition, target)
    /\ cluster = Absent
    /\ calls' = Append(calls, "get")
    /\ raised' = [call |-> "get", err |-> "NotFound"]
    /\ \E hasValue \in BOOLEAN : Finish(NotFoundReport(hasValue))
    /\ UNCHANGED <<k8s_obj, target, params, check_mode, cluster, writes, existing,
                   existing_count, return_attributes, scale_obj,
                   scale_existing, result, elapsed, response>>

\* the NotFoundError a call on the object raises when the object is gone
NotFoundOf(obj) == IF obj = Absent THEN {"NotFound"} ELSE {}

\* a get outside the wait loop raises and nothing catches it: any error
\* other than NotFoundError at the initial get, any error at all in scale()
GetRaises ==
    /\ pc \in {"start", "scale_get", "scale_after"}
    /\ pc = "start" => SetupPasses(params.resource_definition, target)
    /\ calls' = Append(calls, "get")
    /\ \E e \in Errors \cup (IF pc # "start" THEN NotFoundOf(cluster) ELSE {}) :
         /\ raised' = [call |-> "get", err |-> e]
         /\ Finish(Uncaught(e))
    /\ UNCHANGED <<k8s_obj, target, params, check_mode, cluster, writes, existing,
                   existing_count, return_attributes, scale_obj,
                   scale_existing, result, elapsed, response>>

\* execute_module, Job path: resource.patch of the full object returns
JobPatch ==
    /\ pc = "job_patch"
    /\ cluster # Absent
    /\ calls' = Append(calls, "patch")
    /\ existing' = [existing EXCEPT !.parallelism = params.replicas]
    /\ \E after \in PatchOutcomes(cluster, "parallelism", params.replicas,
                                   existing.resourceVersion) :
         /\ cluster' = after
         /\ return_attributes' = [return_attributes EXCEPT !.result = after]
         /\ Finish(ExitJson([return_attributes EXCEPT !.result = after]))
    /\ UNCHANGED <<k8s_obj, raised, target, params, check_mode, writes, existing_count,
                   scale_obj, scale_existing, result, elapsed, response>>

\* execute_module, Job path: resource.patch raises; nothing catches it
JobPatchRaises ==
    /\ pc = "job_patch"
    /\ calls' = Append(calls, "patch")
    /\ existing' = [existing EXCEPT !.parallelism = params.replicas]
    /\ \E e \in Errors \cup NotFoundOf(cluster) :
         /\ raised' = [call |-> "patch", err |-> e]
         /\ Finish(Uncaught(e))
    /\ UNCHANGED <<k8s_obj, target, params, check_mode, cluster, writes,
                   existing_count, return_attributes, scale_obj,
                   scale_existing, result, elapsed, response>>

\* the 'before' document taken from the initial get, with no call of its own
ScaleGetReusesInitial ==
    /\ pc = "scale_get"
    /\ cluster # Absent
    /\ scale_existing' = existing
    /\ pc' = "scale_patch"
    /\ UNCHANGED <<k8s_obj, raised, target, params, check_mode, cluster, writes, existing,
                   existing_count, return_attributes, scale_obj, result,
                   elapsed, response, calls, report>>

\* scale: existing = resource.get(...), the 'before' document
ScaleGet ==
    /\ pc = "scale_get"
    /\ cluster # Absent
    /\ calls' = Append(calls, "get")
    /\ scale_existing' = cluster
    /\ pc' = "scale_patch"
    /\ UNCHANGED <<k8s_obj, raised, target, params, check_mode, cluster, writes, existing,
                   existing_count, return_attributes, scale_obj, result,
                   elapsed, response, report>>

\* scale: resource.scale.patch(body=scale_obj) returns
ScalePatch ==
    /\ pc = "scale_patch"
    /\ cluster # Absent
    /\ calls' = Append(calls, "scale.patch")
    /\ cluster' \in PatchOutcomes(cluster, "replicas", scale_obj.replicas, None)
    /\ pc' = "scale_after"
    /\ UNCHANGED <<k8s_obj, raised, target, params, check_mode, writes, existing,
                   existing_count, return_attributes, scale_obj,
                   scale_existing, result, elapsed, response, report>>

\* the error of resource.scale.patch swallowed: scale() goes on to the re-fetch
ScalePatchRaisesSwallowed ==
    /\ pc = "scale_patch"
    /\ calls' = Append(calls, "scale.patch")
    /\ \E e \in Errors \cup NotFoundOf(cluster) : raised' = [call |-> "scale.patch", err |-> e]
    /\ pc' = "scale_after"
    /\ UNCHANGED <<k8s_obj, target, params, check_mode, cluster, writes,
                   existing, existing_count, return_attributes, scale_obj,
                   scale_existing, result, elapsed, response, report>>

\* scale: resource.scale.patch raises; fail_json wraps the error
ScalePatchRaises ==
    /\ pc = "scale_patch"
    /\ calls' = Append(calls, "scale.patch")
    /\ \E e \in Errors \cup NotFoundOf(cluster) :
         /\ raised' = [call |-> "scale.patch", err |-> e]
         /\ Finish(FailJson(<<"Scale request failed: ", e>>, <<>>))
    /\ UNCHANGED <<k8s_obj, target, params, check_mode, cluster, writes, existing,
                   existing_count, return_attributes, scale_obj,
                   scale_existing, result, elapsed, response>>

\* scale: the get after the patch, the diff, and the return when no wait
ScaleGetAfter ==
    /\ pc = "scale_after"
    /\ cluster # Absent
    /\ calls' = Append(calls, "get")
    /\ k8s_obj' = cluster
    /\ result' = ScaleResult(scale_existing, cluster)
    /\ IF params.wait
       THEN /\ pc' = "polling"
            /\ UNCHANGED <<return_attributes, report>>
       ELSE /\ return_attributes' = ScaleResult(scale_existing, cluster)
            /\ Finish(ExitJson(ScaleResult(scale_existing, cluster)))
    /\ UNCHANGED <<raised, target, params, check_mode, cluster, writes, existing,
                   existing_count, scale_obj, scale_existing, elapsed,
                   response>>

\* wait: one tick of the poll loop: fetch, compare, sleep
WaitTick ==
    /\ pc = "polling"
    /\ elapsed < params.wait_timeout
    /\ cluster # Absent
    /\ calls' = Logged(calls, "poll")
    /\ response' = cluster
    /\ IF cluster.replicas = scale_obj.replicas
       THEN /\ result' = ScaleWaitResult(result, cluster, elapsed)
            /\ return_attributes' = ScaleWaitResult(result, cluster, elapsed)
            /\ Finish(ScaleAfterWait(TRUE, ScaleWaitResult(result, cluster, elapsed)))
            /\ UNCHANGED elapsed
       ELSE /\ elapsed' = elapsed + PollInterval
            /\ UNCHANGED <<pc, report, result, return_attributes>>
    /\ UNCHANGED <<k8s_obj, raised, target, params, check_mode, cluster, writes, existing,
                   existing_count, scale_obj, scale_existing>>

\* wait: the fetch of a poll tick raises; neither wait nor scale() catches it
WaitRaises ==
    /\ pc = "polling"
    /\ elapsed < params.wait_timeout
    /\ calls' = Logged(calls, "poll")
    /\ \E e \in Errors \cup NotFoundOf(cluster) :
         /\ raised' = [call |-> "poll", err |-> e]
         /\ Finish(Uncaught(e))
    /\ UNCHANGED <<k8s_obj, target, params, check_mode, cluster, writes, existing,
                   existing_count, return_attributes, scale_obj,
                   scale_existing, result, elapsed, response>>

\* wait: the timeout has elapsed without convergence
WaitTimedOut ==
    /\ pc = "polling"
    /\ elapsed >= params.wait_timeout
    /\ result' = ScaleWaitResult(result, response, elapsed)
    /\ Finish(ScaleAfterWait(FALSE, ScaleWaitResult(result, response, elapsed)))
    /\ UNCHANGED <<k8s_obj, raised, target, params, check_mode, cluster, writes, existing,
                   existing_count, return_attributes, scale_obj,
                   scale_existing, elapsed, response, calls>>

\* another client of the cluster changes the object's count between two
\* calls of the invocation (what it did before the first call is the
\* choice of the initial object)
ExternalWrite ==
    /\ pc \notin {"start", "done"}
    /\ cluster # Absent
    /\ writes < MaxWrites
    /\ writes' = writes + 1
    /\ \E c \in Counts \ {cluster[CountField(cluster.kind)]} :
         cluster' = Written(cluster, CountField(cluster.kind), c)
    /\ UNCHANGED <<k8s_obj, raised, target, params, check_mode, pc, existing, existing_count,
                   return_attributes, scale_obj, scale_existing, result,
                   elapsed, response, calls, report>>

\* another client of the cluster deletes the object
ExternalDelete ==
    /\ pc \notin {"start", "done"}
    /\ cluster # Absent
    /\ writes < MaxWrites
    /\ writes' = writes + 1
    /\ cluster' = Absent
    /\ UNCHANGED <<k8s_obj, raised, target, params, check_mode, pc, existing, existing_count,
                   return_attributes, scale_obj, scale_existing, result,
                   elapsed, response, calls, report>>

Next ==
    \/ ExecuteModuleSetupEnds
    \/ ExecuteModuleGet
    \/ ExecuteModuleNotFound
    \/ GetRaises
    \/ JobPatch
    \/ JobPatchRaises
    \/ ScaleGet
    \/ ScalePatch
    \/ ScalePatchRaises
    \/ ScaleGetAfter
    \/ WaitTick
    \/ WaitRaises
    \/ WaitTimedOut
    \/ ExternalWrite
    \/ ExternalDelete

Spec == Init /\ [][Next]_vars

\* the invocation is a running process: while it has a step to take it takes one
Step ==
    \/ ExecuteModuleSetupEnds
    \/ ExecuteModuleGet
    \/ ExecuteModuleNotFound
    \/ GetRaises
    \/ JobPatch
    \/ JobPatchRaises
    \/ ScaleGet
    \/ ScalePatch
    \/ ScalePatchRaises
    \/ ScaleGetAfter
    \/ WaitTick
    \/ WaitRaises
    \/ WaitTimedOut

\* a step in which the API answers the call, with the object or with its
\* absence, rather than failing
Answered == Step /\ raised'.err \notin Errors

\* the process keeps running; that the API ever fails is not required
FairSpec == Init /\ [][Next]_vars /\ WF_vars(Answered)

(* ------------------------- vocabulary of the claims -------------------- *)

Done == pc = "done"

Exited == Done /\ report.rc = "exit"

Failed == Done /\ report.rc \in {"fail", "crash"}

Issued(call) == \E i \in 1..Len(calls) : calls[i] = call

NoPatchIssued == ~Issued("patch") /\ ~Issued("scale.patch")

\* the initial get returned an object
Fetched == existing # NoneDoc

\* the document the initial get returned (the Job path later overwrites
\* the parallelism of existing with the desired count)
FetchedDoc == [existing EXCEPT !.parallelism =
                  IF IsJob(target.kind) THEN existing_count ELSE @]

\* some get was issued after a patch call
RefetchedAfterPatch ==
    \E i, j \in 1..Len(calls) :
        i < j /\ calls[i] \in {"patch", "scale.patch"} /\ calls[j] = "get"

(* -------------------------------- C1 ----------------------------------- *)

\* C1 as stated: whenever the invocation exits with changed = false, no
\* patch call (resource.patch or resource.scale.patch) was issued.
C1_NoPatchWhenUnchanged ==
    (Exited /\ ~report.kw.changed) => NoPatchIssued

\* C1 amended: whenever the invocation exits with changed = false, no
\* resource.patch call was issued, and a resource.scale.patch call was
\* issued only if the document fetched after it equals the document
\* fetched before it.
C1_UnchangedMeansNoDrift ==
    (Exited /\ ~report.kw.changed) =>
        /\ ~Issued("patch")
        /\ Issued("scale.patch") => scale_existing = k8s_obj

\* an invocation that issued a scale patch and exits with changed = false
C1_Witness ==
    Exited /\ ~report.kw.changed /\ Issued("scale.patch")

(* -------------------------------- C2 ----------------------------------- *)

\* C2 as stated: after every successful Apply (Job patched directly, or
\* another kind patched through the scale subresource) the object was
\* re-fetched after the patch, and changed is true exactly when the
\* document before the patch differs from the document after it.
C2_ChangedIsDriftEveryKind ==
    (Exited /\ ~NoPatchIssued) =>
        /\ RefetchedAfterPatch
        /\ Issued("scale.patch") => (report.kw.changed <=> scale_existing # k8s_obj)
        /\ Issued("patch") => (report.kw.changed <=> FetchedDoc # report.kw.result)

\* C2 amended: after every successful Apply through the scale subresource
\* the object was re-fetched after the patch, and changed is true exactly
\* when the document fetched before the patch differs from the one fetched
\* after it; after a successful direct patch of a Job nothing is
\* re-fetched, changed is true and result is the document the patch
\* call returned.
C2_ChangedIsDriftOnScalePath ==
    /\ (Exited /\ Issued("scale.patch")) =>
          /\ RefetchedAfterPatch
          /\ report.kw.changed <=> scale_existing # k8s_obj
    /\ (Exited /\ Issued("patch")) =>
          /\ calls = <<"get", "patch">>
          /\ report.kw.changed
          /\ report.kw.result = cluster

\* a successful scale-subresource Apply whose patch changed the object
C2_Witness ==
    /\ Exited /\ Issued("scale.patch")
    /\ report.kw.changed /\ scale_existing # k8s_obj
    /\ k8s_obj.replicas = params.replicas

(* -------------------------------- C3 ----------------------------------- *)

\* C3: whenever the count the invocation observed at the initial get
\* equals the desired replicas, the invocation exits successfully with
\* changed = false, and its only API call is that get (no patch, no
\* scale patch, no poll).
C3_EqualCountSkips ==
    (Done /\ Fetched /\ existing_count = params.replicas) =>
        /\ report.rc = "exit"
        /\ ~report.kw.changed
        /\ calls = <<"get">>

\* equal counts with wait requested, no guard set, outside check mode
C3_Witness ==
    /\ Done /\ Fetched /\ existing_count = params.replicas
    /\ params.wait /\ ~check_mode
    /\ params.resource_version = None /\ params.current_replicas = None

(* -------------------------------- C4 ----------------------------------- *)

\* C4 as stated: whenever resource_version is set and differs from the
\* resourceVersion of the object the initial get returned, the invocation
\* exits successfully with changed = false and issues no patch.
C4_VersionMismatchSkips ==
    (Done /\ Fetched /\ params.resource_version # None
          /\ params.resource_version # FetchedDoc.resourceVersion) =>
        /\ report.rc = "exit"
        /\ ~report.kw.changed
        /\ NoPatchIssued

\* C4 amended: whenever resource_version is set to a non-empty value that
\* differs from the resourceVersion of the object the initial get
\* returned, and that object yields a count, the invocation exits
\* successfully with changed = false and issues no patch, whatever the
\* observed count, the desired count and current_replicas are.
C4_NonEmptyVersionMismatchSkips ==
    (Done /\ Fetched /\ params.resource_version \notin {None, EmptyStr}
          /\ params.resource_version # FetchedDoc.resourceVersion
          /\ existing_count # None) =>
        /\ report.rc = "exit"
        /\ ~report.kw.changed
        /\ NoPatchIssued

\* a mismatched resource_version on a request that would otherwise apply
C4_Witness ==
    /\ Done /\ Fetched /\ params.resource_version \notin {None, EmptyStr}
    /\ params.resource_version # FetchedDoc.resourceVersion
    /\ existing_count \notin {None, params.replicas}
    /\ params.current_replicas = existing_count
    /\ ~check_mode

(* -------------------------------- C5 ----------------------------------- *)

\* C5: whenever current_replicas is set (0 included) and differs from the
\* count the invocation observed at the initial get, the invocation exits
\* successfully with changed = false and issues no patch, whether or not
\* resource_version is set or matches.
C5_CurrentReplicasMismatchSkips ==
    (Done /\ Fetched /\ existing_count # None
          /\ params.current_replicas # None
          /\ params.current_replicas # existing_count) =>
        /\ report.rc = "exit"
        /\ ~report.kw.changed
        /\ NoPatchIssued

\* current_replicas = 0 mismatched, resource_version matching, a change wanted
C5_Witness ==
    /\ Done /\ Fetched /\ existing_count \notin {None, params.replicas}
    /\ params.current_replicas = 0 /\ existing_count # 0
    /\ params.resource_version = FetchedDoc.resourceVersion
    /\ ~check_mode

(* -------------------------------- C6 ----------------------------------- *)

\* both guards let the request through
GuardsPass ==
    /\ params.resource_version \in {None, EmptyStr, FetchedDoc.resourceVersion}
    /\ params.current_replicas \in {None, existing_count}

\* C6: for a target of kind job whose observed parallelism differs from
\* the desired count and whose guards pass, outside check mode, the
\* invocation issues exactly the initial get and one resource.patch whose
\* body is the fetched object with parallelism set to the desired count;
\* it never calls the scale subresource and never polls, with wait true
\* or false.
C6_JobPatchedDirectlyWithoutWait ==
    (Done /\ Fetched /\ target.kind = "job" /\ ~check_mode
          /\ existing_count \notin {None, params.replicas} /\ GuardsPass) =>
        /\ calls = <<"get", "patch">>
        /\ existing.parallelism = params.replicas
        /\ ~Issued("scale.patch")
        /\ ~Issued("poll")

\* a job scaled with wait requested: the patch went through and the
\* invocation exited without a poll
C6_Witness ==
    /\ Exited /\ target.kind = "job" /\ params.wait /\ ~check_mode
    /\ existing_count \notin {None, params.replicas}
    /\ Issued("patch")
    /\ cluster.parallelism = params.replicas

(* -------------------------------- C7 ----------------------------------- *)

\* the wait loop was entered and ended without observing the desired count
WaitEndedUnconverged ==
    /\ Done /\ params.wait /\ k8s_obj # NoneDoc
    /\ response.replicas # scale_obj.replicas

\* C7: when wait is requested on a scale-subresource Apply and the wait
\* loop ends without the observed replicas matching the desired replicas,
\* the invocation fails, and the failure report carries the object the
\* wait loop observed last, the diff computed after the patch, the
\* changed flag and the elapsed duration.
C7_TimeoutIsFatalWithContext ==
    WaitEndedUnconverged =>
        /\ report.rc = "fail"
        /\ report.msg = <<"Resource scaling timed out">>
        /\ report.kw.result = response
        /\ report.kw.diff = DiffObjects(scale_existing, k8s_obj).diffs
        /\ report.kw.changed = (scale_existing # k8s_obj)
        /\ report.kw.duration = elapsed

(* -------------------------------- C8 ----------------------------------- *)

\* the wait loop ended having observed the desired count
Converged ==
    Done /\ report.rc = "exit" /\ response.replicas = scale_obj.replicas

\* the wait loop ended on the timeout
TimedOut ==
    Done /\ report.rc = "fail" /\ report.msg = <<"Resource scaling timed out">>

\* the wait loop ended on an error raised by the fetch of a poll
PollFailed ==
    Done /\ report.rc = "crash" /\ raised.call = "poll"

\* C8 as stated: the poll loop always terminates: from Polling the
\* invocation eventually reaches exactly one of Converged and TimedOut, and
\* once the elapsed time has reached the timeout without convergence the
\* step that leaves Polling ends in TimedOut, whatever the API returns.
C8_WaitLoopEndsConvergedOrTimedOut ==
    /\ (pc = "polling") ~> ((Converged \/ TimedOut) /\ ~(Converged /\ TimedOut))
    /\ [][(pc = "polling" /\ elapsed >= params.wait_timeout /\ pc' # pc)
            => TimedOut']_vars

\* C8 amended: the poll loop always terminates: from Polling the
\* invocation eventually reaches exactly one of Converged, TimedOut and
\* the fatal error of a poll whose fetch raised; once the elapsed time has
\* reached the timeout without convergence no further poll is made and the
\* step that leaves Polling ends in TimedOut.
C8_WaitLoopTerminates ==
    /\ (pc = "polling") ~>
          /\ Converged \/ TimedOut \/ PollFailed
          /\ ~(Converged /\ TimedOut)
          /\ ~(Converged /\ PollFailed)
          /\ ~(TimedOut /\ PollFailed)
    /\ [][(pc = "polling" /\ elapsed >= params.wait_timeout)
            => calls' = calls /\ raised' = raised]_vars
    /\ [][(pc = "polling" /\ elapsed >= params.wait_timeout /\ pc' # pc)
            => TimedOut']_vars

\* the loop in mid-flight: a tick has passed without convergence and the
\* timeout leaves room for another
C8_Witness ==
    /\ pc = "polling"
    /\ elapsed > 0
    /\ elapsed < params.wait_timeout
    /\ response.replicas # scale_obj.replicas

(* -------------------------------- C9 ----------------------------------- *)

\* C9: whenever an invocation with wait = true issued a scale patch and
\* exits successfully, its last call was a poll, the result it returns is
\* the object that poll fetched, that object's replicas equal the desired
\* replicas, and the reported duration is the elapsed time, below the
\* timeout; and the loop never goes on polling after a tick that observed
\* the desired count.
C9_SuccessMeansConverged ==
    /\ (Exited /\ Issued("scale.patch") /\ params.wait) =>
          /\ calls[Len(calls)] = "poll"
          /\ report.kw.result = response
          /\ response.replicas = params.replicas
          /\ report.kw.duration = elapsed
          /\ elapsed < params.wait_timeout
    /\ (pc = "polling") => response.replicas # scale_obj.replicas

\* convergence seen on a later tick: an earlier poll missed the desired
\* count, the last one observed it
C9_Witness ==
    /\ Exited /\ Issued("scale.patch") /\ params.wait
    /\ elapsed > 0
    /\ response.replicas = params.replicas
    /\ response # k8s_obj

(* -------------------------------- C10 ---------------------------------- *)

\* C10: if resource.scale.patch raises, the invocation ends at once as a
\* failure whose message wraps the error: one patch call, no re-fetch, no
\* poll; if the direct patch of a Job raises, the invocation likewise
\* ends at once as a failure, the patch not retried.
C10_PatchErrorIsFatal ==
    /\ raised.call = "scale.patch" =>
          /\ Done /\ report.rc = "fail"
          /\ report.msg = <<"Scale request failed: ", raised.err>>
          /\ calls = <<"get", "get", "scale.patch">>
          /\ k8s_obj = NoneDoc
    /\ raised.call = "patch" =>
          /\ Failed
          /\ calls = <<"get", "patch">>

\* a scale patch raised on a request that asked to wait
C10_Witness ==
    /\ raised = [call |-> "scale.patch", err |-> "E2"]
    /\ params.wait
    /\ Done

(* -------------------------------- C11 ---------------------------------- *)

\* C11: for a target that is not a job and whose resource has no scale
\* subresource, whenever Apply is reached (a count was observed, it
\* differs from the desired count, the guards pass, outside check mode)
\* the invocation ends as a fatal failure naming the resource kind, and
\* its only API call is the initial get: no patch, no scale patch, no poll.
C11_NoSubresourceIsFatalBeforeAnyWrite ==
    (Done /\ Fetched /\ target.kind # "job" /\ ~target.hasScale /\ ~check_mode
          /\ existing_count \notin {None, params.replicas} /\ GuardsPass) =>
        /\ report.rc = "fail"
        /\ report.msg = <<"Cannot perform scale on resource of kind ", target.resource>>
        /\ calls = <<"get">>

\* a resource without scale subresource asked to scale, with wait requested
C11_Witness ==
    /\ Done /\ Fetched /\ target.kind # "job" /\ ~target.hasScale /\ ~check_mode
    /\ existing_count \notin {None, params.replicas} /\ GuardsPass
    /\ params.wait /\ params.wait_timeout > 0

(* -------------------------------- C12 ---------------------------------- *)

\* the failure reports of execute_module and scale()
CountMissingReported ==
    report.msg = <<"Failed to retrieve the available count for the requested object.">>

UnsupportedKindReported ==
    report.rc = "fail" /\ Len(report.msg) = 2
        /\ report.msg[1] = "Cannot perform scale on resource of kind "

\* C12: every fatal condition ends the invocation with the call log
\* standing at the point of failure, so no get, patch or poll follows it:
\* NotFoundError at the initial get after exactly one get and no patch; a
\* missing count and an unsupported kind after the initial get alone; a
\* patch error with the patch as the last call; a convergence timeout with
\* nothing after the wait loop's last poll. A report, once made, is final.
C12_FatalAbortsAtOnce ==
    /\ report.rc # "none" => Done
    /\ raised # NoError =>
          /\ Done /\ report.rc \in {"fail", "crash"}
          /\ calls # <<>> /\ calls[Len(calls)] = raised.call
    /\ (raised.err = "NotFound" /\ ~Fetched) => calls = <<"get">>
    /\ (Fetched /\ existing_count = None) =>
          Done /\ report.rc = "fail" /\ CountMissingReported /\ calls = <<"get">>
    /\ UnsupportedKindReported => calls = <<"get">>
    /\ raised.call = "scale.patch" =>
          Done /\ report.rc = "fail" /\ calls = <<"get", "get", "scale.patch">>
    /\ raised.call = "patch" =>
          Done /\ report.rc = "crash" /\ calls = <<"get", "patch">>
    /\ TimedOut =>
          calls \in {<<"get", "get", "scale.patch", "get">>,
                     <<"get", "get", "scale.patch", "get", "poll">>}

\* the object is absent: the initial get raised NotFoundError and the
\* invocation failed with the upstream status
C12_Witness ==
    /\ Done /\ raised = [call |-> "get", err |-> "NotFound"]
    /\ report.rc = "fail" /\ report.kw.error = 404
    /\ params.wait /\ ~check_mode

(* -------------------------------- C13 ---------------------------------- *)

\* C13: on every successful exit (guard skip, equal count, check mode, Job
\* patch, scale patch with or without wait) the report has a duration
\* field if and only if wait was requested.
C13_DurationIffWait ==
    Exited => (("duration" \in DOMAIN report.kw) <=> params.wait)

\* a job patched with wait requested: no wait loop ran, and the report
\* still carries the duration execute_module started with
C13_Witness ==
    /\ Exited /\ params.wait /\ Issued("patch")
    /\ "duration" \in DOMAIN report.kw
    /\ report.kw.duration = 0

(* -------------------------------- C14 ---------------------------------- *)

\* C14: for every target whose resolved resource kind is Job the observed
\* count is the fetched object's spec.parallelism and Apply patches the
\* object directly; for every other kind the count is spec.replicas and
\* Apply goes through the scale subresource; both kind tests agree with
\* the kind of the fetched object.
C14_KindTestsFollowResourceKind ==
    (Done /\ Fetched) =>
        /\ existing.kind = target.resource
        /\ existing_count = (IF target.resource = "Job"
                              THEN FetchedDoc.parallelism
                              ELSE FetchedDoc.replicas)
        /\ Issued("patch") => target.resource = "Job"
        /\ Issued("scale.patch") => target.resource # "Job"

(* -------------------------------- C15 ---------------------------------- *)

\* C15: whenever the fetched object yields no count, the invocation ends
\* as a fatal failure right after the initial get, before either guard
\* can skip and without any patch, even when resource_version or
\* current_replicas mismatches; an observed count of 0 is a count and is
\* never reported as missing.
C15_MissingCountFailsBeforeGuards ==
    /\ (Done /\ Fetched /\ existing_count = None) =>
          /\ report.rc = "fail"
          /\ CountMissingReported
          /\ calls = <<"get">>
    /\ (Done /\ Fetched /\ existing_count = 0) => ~CountMissingReported

\* an object without count fetched under guards that would both have skipped
C15_Witness ==
    /\ Done /\ Fetched /\ existing_count = None
    /\ params.resource_version \notin {None, EmptyStr, existing.resourceVersion}
    /\ params.current_replicas # None
    /\ report.rc = "fail"

(* -------------------------------- C16 ---------------------------------- *)

\* how often a call occurs in the log
CountOf(call) == Cardinality({ i \in 1..Len(calls) : calls[i] = call })

\* no skip rule matches, as C16 words it: resource_version unset or equal
\* to the observed one, current_replicas unset or equal to the observed
\* count, the observed count different from the desired one
NoSkipRuleMatches ==
    /\ Fetched /\ existing_count # None
    /\ params.resource_version \in {None, FetchedDoc.resourceVersion}
    /\ params.current_replicas \in {None, existing_count}
    /\ existing_count # params.replicas

\* the scale document carries the desired count and the fetched object's
\* kind, name and namespace
ScaleObjAsSpecified ==
    scale_obj = [kind |-> existing.kind, name |-> existing.name,
                 namespace |-> existing.namespace, replicas |-> params.replicas]

\* C16 as stated: outside check mode, whenever no skip rule matches, a job
\* gets exactly one resource.patch call, and a kind with a scale
\* subresource exactly one resource.scale.patch call carrying
\* spec.replicas = desired and the name and namespace of the fetched object.
C16_ApplyIssuesOnePatch ==
    (Done /\ ~check_mode /\ NoSkipRuleMatches) =>
        /\ target.kind = "job" =>
              CountOf("patch") = 1 /\ CountOf("scale.patch") = 0
        /\ (target.kind # "job" /\ target.hasScale) =>
              /\ CountOf("scale.patch") = 1 /\ CountOf("patch") = 0
              /\ ScaleObjAsSpecified

\* C16 amended: outside check mode, whenever no skip rule matches, a job
\* gets exactly one resource.patch call; a kind with a scale subresource
\* gets the scale document built with spec.replicas = desired and the name
\* and namespace of the fetched object, and exactly one
\* resource.scale.patch call, unless the get that scale() issues before
\* the patch raises: then the invocation ends on that error with no patch.
C16_ApplyIssuesOnePatchUnlessGetRaises ==
    (Done /\ ~check_mode /\ NoSkipRuleMatches) =>
        /\ target.kind = "job" =>
              CountOf("patch") = 1 /\ CountOf("scale.patch") = 0
        /\ (target.kind # "job" /\ target.hasScale) =>
              /\ ScaleObjAsSpecified
              /\ CountOf("patch") = 0
              /\ IF raised.call = "get" /\ calls = <<"get", "get">>
                 THEN report.rc = "crash"
                 ELSE CountOf("scale.patch") = 1

\* a scale-subresource Apply under matching guards whose patch took effect
C16_Witness ==
    /\ Done /\ ~check_mode /\ NoSkipRuleMatches
    /\ params.resource_version # None /\ params.current_replicas # None
    /\ CountOf("scale.patch") = 1 /\ ScaleObjAsSpecified
    /\ k8s_obj.replicas = params.replicas

(* -------------------------------- C17 ---------------------------------- *)

\* a step of the invocation in which its patch took effect on the cluster
PatchApplied ==
    /\ pc \in {"job_patch", "scale_patch"}
    /\ pc' # pc
    /\ cluster' # cluster

\* C17: with resource_version set, under any interleaving with an external
\* writer, no patch of the invocation takes effect on an object whose
\* resourceVersion at that moment differs from resource_version.
C17_PatchOnlyOnExpectedVersion ==
    [][(PatchApplied /\ Truthy(params.resource_version)) =>
          cluster.resourceVersion = params.resource_version]_vars

(* -------------------------------- C18 ---------------------------------- *)

\* C18: an invocation in check mode issues no resource.patch, no
\* resource.scale.patch and no wait poll; it reports changed=true exactly
\* when the guards pass and the observed count differs from the desired
\* one, and every exit returns the object of the initial get as result.
C18_CheckModeNeverWrites ==
    check_mode =>
        /\ NoPatchIssued /\ ~Issued("poll")
        /\ calls \in {<<>>, <<"get">>}
        /\ (report.rc = "exit" /\ report.kw.changed)
             <=> (Done /\ Fetched /\ existing_count # None /\ GuardsPass
                       /\ existing_count # params.replicas)
        /\ Exited => report.kw.result = existing /\ existing # NoneDoc

\* a check-mode run that reports a needed change and leaves the object as
\* fetched
C18_Witness ==
    /\ check_mode /\ Exited /\ report.kw.changed
    /\ target.hasScale /\ writes = 0
    /\ cluster = existing /\ cluster.replicas # params.replicas

(* -------------------------------- C19 ---------------------------------- *)

\* s is an initial segment of t
IsPrefix(s, t) == Len(s) <= Len(t) /\ s = SubSeq(t, 1, Len(s))

\* the calls of the Job path, in order
JobCallOrder == <<"get", "patch">>

\* the calls of the scale-subresource path, in order: initial get, 'before'
\* get, patch, 'after' get, the polls of wait
ScaleCallOrder == <<"get", "get", "scale.patch", "get", "poll">>

\* C19: at most one write call is issued, and the calls occur in a fixed
\* order: the initial get comes before every guard decision and every
\* write; on the scale-subresource path the 'before' get precedes the
\* patch, the patch precedes the 'after' get, and every poll of wait comes
\* after that 'after' get.
C19_CallsInFixedOrder ==
    /\ CountOf("patch") + CountOf("scale.patch") <= 1
    /\ IsPrefix(calls, JobCallOrder) \/ IsPrefix(calls, ScaleCallOrder)
    /\ calls = <<>> =>
         /\ \/ pc = "start" /\ report = NoReport
            \/ Done /\ report.rc \in {"fail", "crash"}
         /\ existing = NoneDoc /\ existing_count = None
         /\ ~return_attributes.changed
    /\ pc = "scale_patch" <=> calls = <<"get", "get">> /\ ~Done
    /\ pc = "polling" => calls \in {SubSeq(ScaleCallOrder, 1, 4), ScaleCallOrder}

\* a run through the whole scale path: both gets, the patch, the 'after'
\* get and polls, in that order
C19_Witness ==
    Done /\ calls = ScaleCallOrder /\ Issued("poll") /\ writes > 0

(* -------------------------------- C20 ---------------------------------- *)

\* one of the three ways past Apply: the resourceVersion guard, the
\* current_replicas guard, or the observed count already the desired one
SkipRuleMatches ==
    /\ Fetched /\ existing_count # None
    /\ \/ /\ Truthy(params.resource_version)
          /\ params.resource_version # existing.resourceVersion
       \/ /\ params.current_replicas # None
          /\ params.current_replicas # existing_count
       \/ existing_count = params.replicas

\* C20: every successful exit that does not reach Apply performs exactly
\* one read (the initial get) and no write, leaves the cluster object as
\* fetched, and returns the fetched object as result with changed = false
\* and an empty diff.
C20_SkipExitLeavesObjectAlone ==
    /\ (Exited /\ SkipRuleMatches) =>
          /\ calls = <<"get">>
          /\ scale_obj.replicas = None
          /\ cluster = existing
          /\ ~report.kw.changed
          /\ report.kw.result = existing
          /\ report.kw.diff = [before |-> {}, after |-> {}]
    /\ (Done /\ SkipRuleMatches) => Exited

\* a skip by the resourceVersion guard although the count differs from
\* the desired one
C20_Witness ==
    /\ Exited /\ SkipRuleMatches /\ ~check_mode
    /\ Truthy(params.resource_version)
    /\ params.resource_version # existing.resourceVersion
    /\ existing_count # params.replicas
    /\ report.kw.result = cluster

====
